---- MODULE Spec2Model ----
(***************************************************************************)
(* A model of the nanover recording readers read_state.py and read_traj.py *)
(* : the snapshot aggregators (iter_full_states, iter_full_trajectories),  *)
(* the header and frame readers (iter_state_updates, read_header,          *)
(* iter_traj_updates) and the key-renaming rewrite (replace_narupa).       *)
(*                                                                         *)
(* Python objects that are mutated in place are modelled with a heap of    *)
(* objects and references to them, so that aliasing is visible. Where the  *)
(* source relies on what objects of the nanover library do, the library is *)
(* a choice made at the start of a run (lib).                              *)
(***************************************************************************)
EXTENDS Integers, Sequences, FiniteSets, TLC

VARIABLES
    \* ---- the aggregator (iter_full_states / iter_full_trajectories)
    agg_kind,         \* "states" or "trajectories": which aggregator runs
    updates,          \* the input iterable: a sequence of update items
    pulled,           \* how many items the for loop has pulled from updates
    heap,             \* the dict objects created so far, by object id (1..)
    aggregate_state,  \* the object id the local name aggregate_state is bound to
    yielded,          \* the (timestamp, object id) pairs the consumer received
    seen,             \* what the consumer saw in each snapshot when it was yielded
    agg_pc,           \* where the generator stands
    earlier,          \* what the consumer keeps of a run that ended before
                      \* this one: <<>>, or one record of its outputs
    \* ---- the readers and the rewrite
    reader,           \* "state": iter_state_updates, "traj": read_header and
                      \* iter_traj_updates, "rewrite": replace_narupa
    file,             \* how the input was made: header fields, frames, tail
    buffer,           \* the Unpacker's buffer: the bytes of the input
    cursor,           \* the Unpacker's cursor
    rd_pc,            \* "header", "frames", "done" or "failed" (an error was raised)
    error,            \* the error raised to the caller, if any
    frames,           \* the frames yielded so far
    written,          \* the byte strings passed to writer.write, in order
    stops,            \* the pulls made after the sequence ended, each answered
                      \* with StopIteration
    printed,          \* what the rewrite printed: the type name of each update
    \* ---- the installed nanover library
    lib               \* what the library does where the source relies on it

agg_vars == <<agg_kind, updates, pulled, heap, aggregate_state, yielded, seen, agg_pc,
              earlier>>

rd_vars == <<reader, file, buffer, cursor, rd_pc, error, frames, written, stops,
             printed, lib>>

vars == <<agg_kind, updates, pulled, heap, aggregate_state, yielded, seen, agg_pc,
          earlier,
          reader, file, buffer, cursor, rd_pc, error, frames, written, stops,
          printed, lib>>

-----------------------------------------------------------------------------
(* Bounds of the model. *)

\* The most pulls a consumer makes after a sequence of frames has ended.
MaxPullsAfterEnd == 1

\* The longest update sequence fed to an aggregator.
MaxUpdates == 3

\* The most complete frames in an input file.
MaxFrames == 2

-----------------------------------------------------------------------------
(* Python values: a number, a nested dict or None. A string is a sequence  *)
(* of character codes.                                                     *)

\* A number.
Scalar(n) == [isdict |-> FALSE, val |-> n, items |-> <<>>]

\* A nested dict, given by its items in insertion order.
Dict(items) == [isdict |-> TRUE, val |-> 0, items |-> items]

\* Python's None, the tombstone of an update: no number and no dict.
None == [isdict |-> FALSE, val |-> -1, items |-> <<>>]

-----------------------------------------------------------------------------
(* Python dicts of the aggregator: a function from the keys present to     *)
(* their values.                                                           *)

\* 'a' and 'b'
Keys == {<<97>>, <<98>>}

Values == {Scalar(1), Scalar(2)}

\* The timestamps an update item may carry.
Timestamps == {5, 7}

\* The empty dict {}.
EmptyDict == [k \in {} |-> None]

\* Every update mapping over d: each key absent, None, or a value.
DictsOver(K, V) == UNION {[D -> V] : D \in SUBSET K}

\* The update mappings of the model: key 'a' is absent, deleted (None) or
\* set to either value; key 'b' is absent or set to 2.
UpdateDicts ==
    {u \in DictsOver(Keys, Values \cup {None}) :
        <<98>> \in DOMAIN u => u[<<98>>] = Scalar(2)}

\* An item of the input iterable: (timestamp, update) for iter_full_states,
\* (timestamp, frame_index, update) for iter_full_trajectories.
Items == [timestamp : Timestamps, frame_index : {0}, update : UpdateDicts]

\* All sequences over S of length at most n.
SeqsUpTo(S, n) == UNION {[1..m -> S] : m \in 0..n}

\* dict.update(other): every key of other is set to other's value.
DictUpdate(d, u) ==
    [k \in DOMAIN d \cup DOMAIN u |-> IF k \in DOMAIN u THEN u[k] ELSE d[k]]

\* The comprehension, wrongly keeping the None values.
DropNoneKeepAll(d) == d

\* {key: value for key, value in d.items() if value is not None}
DropNone(d) ==
    [k \in {x \in DOMAIN d : d[x] # None} |-> d[k]]

-----------------------------------------------------------------------------
(* Bytes and integers. A byte string is a sequence of numbers 0..255.      *)

RECURSIVE ToBytesBE(_, _)
\* n.to_bytes(w, 'big'): the byte order a slip would produce.
ToBytesBE(n, w) ==
    IF w = 0 THEN <<>> ELSE Append(ToBytesBE(n \div 256, w - 1), n % 256)

RECURSIVE ToBytesLE(_, _)
\* n.to_bytes(w, 'little', signed=False): the w low bytes of n, lowest first.
ToBytesLE(n, w) ==
    IF w = 0 THEN <<>> ELSE <<n % 256>> \o ToBytesLE(n \div 256, w - 1)

RECURSIVE FromBytesBE(_)
\* An unsigned integer read highest byte first: the byte order a slip would use.
FromBytesBE(b) ==
    IF b = <<>> THEN 0
    ELSE b[Len(b)] + 256 * FromBytesBE(SubSeq(b, 1, Len(b) - 1))

RECURSIVE FromBytesLE(_)
\* An unsigned little-endian integer of any width.
FromBytesLE(b) ==
    IF b = <<>> THEN 0 ELSE b[1] + 256 * FromBytesLE(Tail(b))

-----------------------------------------------------------------------------
(* recordings.Unpacker: a buffer and a cursor. Each operation returns      *)
(* whether it succeeded (it raises IndexError otherwise), the cursor after *)
(* it, and the value read.                                                 *)

\* unpack_bytes that reads what is left when fewer than n bytes remain.
UnpackBytesShort(buf, cur, n) ==
    IF cur + n > Len(buf)
    THEN [ok |-> TRUE, cursor |-> Len(buf), bytes |-> SubSeq(buf, cur + 1, Len(buf))]
    ELSE [ok |-> TRUE, cursor |-> cur + n, bytes |-> SubSeq(buf, cur + 1, cur + n)]

\* unpack_bytes(n): the next n bytes; fails, leaving the cursor, when fewer
\* than n remain.
UnpackBytes(buf, cur, n) ==
    IF cur + n > Len(buf)
    THEN [ok |-> FALSE, cursor |-> cur, bytes |-> <<>>]
    ELSE [ok |-> TRUE, cursor |-> cur + n, bytes |-> SubSeq(buf, cur + 1, cur + n)]

\* unpack_u64(): 8 bytes, little-endian.
UnpackU64(buf, cur) ==
    LET r == UnpackBytes(buf, cur, 8)
    IN [ok |-> r.ok, cursor |-> r.cursor, value |-> FromBytesLE(r.bytes)]

\* unpack_u128(): 16 bytes, little-endian.
UnpackU128(buf, cur) ==
    LET r == UnpackBytes(buf, cur, 16)
    IN [ok |-> r.ok, cursor |-> r.cursor, value |-> FromBytesLE(r.bytes)]

-----------------------------------------------------------------------------
(* The header. *)

\* recordings.MAGIC_NUMBER. The library's constant is a 64-bit number; the
\* model uses a two-byte number in its place, which the code only compares.
MAGIC_NUMBER == 24930

\* A supported set that also lets the older version 1 through.
SupportedUpToTwo == {1, 2}

\* supported_format_versions = (2,)
SupportedFormatVersions == {2}

NoHeader == [magic_number |-> 0, format_version |-> 0]

NoError == [name |-> "none", args |-> <<>>]

\* raise recordings.InvalidMagicNumber
InvalidMagicNumber == [name |-> "InvalidMagicNumber", args |-> <<>>]

\* raise recordings.UnsuportedFormatVersion(format_version, supported_format_versions)
UnsuportedFormatVersion(format_version) ==
    [name |-> "UnsuportedFormatVersion",
     args |-> <<format_version, SupportedFormatVersions>>]

\* The IndexError of an Unpacker read past the end of the buffer.
IndexError == [name |-> "IndexError", args |-> <<>>]

\* The failure of the payload codec on a payload it cannot decode.
DecodeError == [name |-> "DecodeError", args |-> <<>>]

\* The failure of the payload codec on a mapping it cannot encode.
EncodeError == [name |-> "EncodeError", args |-> <<>>]

\* TypeError: an object that cannot be iterated was iterated.
TypeError == [name |-> "TypeError", args |-> <<>>]

\* ValueError: a string of n characters was unpacked into (key, value).
ValueError(n) ==
    [name |-> "ValueError",
     args |-> IF n > 2 THEN <<"too many values to unpack (expected 2)">>
              ELSE IF n = 1 THEN <<"not enough values to unpack (expected 2, got 1)">>
              ELSE <<"not enough values to unpack (expected 2, got 0)">>]

\* AttributeError: a GetFrameResponse has no attribute changed_keys.
AttributeError ==
    [name |-> "AttributeError",
     args |-> <<"'GetFrameResponse' object has no attribute 'changed_keys'">>]

-----------------------------------------------------------------------------
(* The nanover library, where the source relies on what its objects do.    *)
(* The library is outside the two source files; each way it can behave at  *)
(* these places is one value of lib, fixed for a run.                      *)
(*   raw:          what iterating FrameData.raw gives (read_traj.py:154):  *)
(*                 "pairs" (key, value) pairs, "keys" the keys of a        *)
(*                 mapping, "message" nothing: the object is not iterable. *)
(*   changed_keys: whether a GetFrameResponse has the attribute            *)
(*                 changed_keys (read_traj.py:163).                        *)
(*   mapping:      whether dict.update accepts a FrameData                 *)
(*                 (read_traj.py:107).                                     *)
(*   state_update: what StateUpdate().ParseFromString does with bytes that *)
(*                 are no encoding of a mapping (read_state.py:65-66):     *)
(*                 "raises" a decode error, or parses them to an "empty"   *)
(*                 message.                                                *)
(*   get_frame_response: the same of GetFrameResponse().ParseFromString    *)
(*                 (read_traj.py:93-94).                                   *)

\* The class of the update that print(type(update)) is given: the frame of
\* iter_traj_updates is a FrameData (read_traj.py:96).
TypeOfUpdate == "FrameData"

\* What a message type may do with bytes that are no encoding.
GarbageOutcomes == {"raises", "empty"}

\* A run that does not reach any of these places.
LibUnused ==
    [raw |-> "unused", changed_keys |-> FALSE, mapping |-> FALSE,
     state_update |-> "unused", get_frame_response |-> "unused"]

\* The libraries of a run of the state reader.
StateLibs ==
    [raw : {"unused"}, changed_keys : {FALSE}, mapping : {FALSE},
     state_update : GarbageOutcomes, get_frame_response : {"unused"}]

\* The libraries of a run of the trajectory reader.
TrajLibs ==
    [raw : {"unused"}, changed_keys : {FALSE}, mapping : {FALSE},
     state_update : {"unused"}, get_frame_response : GarbageOutcomes]

\* The libraries of a rewrite.
RewriteLibs ==
    [raw : {"pairs", "keys", "message"}, changed_keys : BOOLEAN, mapping : {FALSE},
     state_update : {"unused"}, get_frame_response : GarbageOutcomes]

\* The libraries of a trajectory aggregation fed by the trajectory reader.
FullLibs ==
    [raw : {"unused"}, changed_keys : {FALSE}, mapping : BOOLEAN,
     state_update : {"unused"}, get_frame_response : GarbageOutcomes]

\* read_header that reads both fields before it checks the first.
read_header_checks_late(buf, cur) ==
    LET m == UnpackU64(buf, cur)
        v == UnpackU64(buf, m.cursor)
    IN IF ~m.ok \/ ~v.ok
       THEN [error |-> IndexError, cursor |-> v.cursor, header |-> NoHeader]
       ELSE IF m.value # MAGIC_NUMBER
       THEN [error |-> InvalidMagicNumber, cursor |-> v.cursor, header |-> NoHeader]
       ELSE IF v.value \notin SupportedFormatVersions
       THEN [error |-> UnsuportedFormatVersion(v.value), cursor |-> v.cursor,
             header |-> NoHeader]
       ELSE [error |-> NoError, cursor |-> v.cursor,
             header |-> [magic_number |-> m.value, format_version |-> v.value]]

\* read_header(unpacker) of read_traj.py: the error raised (or none), the
\* cursor afterwards and the Header returned.
read_header(buf, cur) ==
    LET m == UnpackU64(buf, cur)
    IN IF ~m.ok
       THEN [error |-> IndexError, cursor |-> m.cursor, header |-> NoHeader]
       ELSE IF m.value # MAGIC_NUMBER
       THEN [error |-> InvalidMagicNumber, cursor |-> m.cursor, header |-> NoHeader]
       ELSE LET v == UnpackU64(buf, m.cursor)
            IN IF ~v.ok
               THEN [error |-> IndexError, cursor |-> v.cursor, header |-> NoHeader]
               ELSE IF v.value \notin SupportedFormatVersions
               THEN [error |-> UnsuportedFormatVersion(v.value), cursor |-> v.cursor,
                     header |-> NoHeader]
               ELSE [error |-> NoError, cursor |-> v.cursor,
                     header |-> [magic_number |-> m.value,
                                 format_version |-> v.value]]

\* The header check with its reads treated like the frame reads: a header
\* that is cut short ends the sequence instead of raising.
state_header_check_lenient(buf, cur) ==
    LET m == UnpackU64(buf, cur)
    IN IF ~m.ok
       THEN [error |-> NoError, cursor |-> Len(buf)]
       ELSE IF m.value # MAGIC_NUMBER
       THEN [error |-> InvalidMagicNumber, cursor |-> m.cursor]
       ELSE LET v == UnpackU64(buf, m.cursor)
            IN IF ~v.ok
               THEN [error |-> NoError, cursor |-> Len(buf)]
               ELSE IF v.value \notin SupportedFormatVersions
               THEN [error |-> UnsuportedFormatVersion(v.value), cursor |-> v.cursor]
               ELSE [error |-> NoError, cursor |-> v.cursor]

\* The header check that reads the version before it compares the magic
\* number.
state_header_check_reads_both(buf, cur) ==
    LET m == UnpackU64(buf, cur)
        v == UnpackU64(buf, m.cursor)
    IN IF ~m.ok \/ ~v.ok
       THEN [error |-> IndexError, cursor |-> v.cursor]
       ELSE IF m.value # MAGIC_NUMBER
       THEN [error |-> InvalidMagicNumber, cursor |-> v.cursor]
       ELSE IF v.value \notin SupportedFormatVersions
       THEN [error |-> UnsuportedFormatVersion(v.value), cursor |-> v.cursor]
       ELSE [error |-> NoError, cursor |-> v.cursor]

\* The header check at the top of iter_state_updates of read_state.py: the
\* error raised (or none) and the cursor afterwards.
state_header_check(buf, cur) ==
    LET m == UnpackU64(buf, cur)
    IN IF ~m.ok
       THEN [error |-> IndexError, cursor |-> m.cursor]
       ELSE IF m.value # MAGIC_NUMBER
       THEN [error |-> InvalidMagicNumber, cursor |-> m.cursor]
       ELSE LET v == UnpackU64(buf, m.cursor)
            IN IF ~v.ok
               THEN [error |-> IndexError, cursor |-> v.cursor]
               ELSE IF v.value \notin SupportedFormatVersions
               THEN [error |-> UnsuportedFormatVersion(v.value), cursor |-> v.cursor]
               ELSE [error |-> NoError, cursor |-> v.cursor]

\* as_bytes with the version before the magic number.
HeaderAsBytesVersionFirst(header) ==
    ToBytesLE(header.format_version, 8) \o ToBytesLE(header.magic_number, 8)

\* as_bytes with the fields in big-endian byte order.
HeaderAsBytesBE(header) ==
    ToBytesBE(header.magic_number, 8) \o ToBytesBE(header.format_version, 8)

\* Header.as_bytes(): both fields as 8 little-endian bytes.
HeaderAsBytes(header) ==
    ToBytesLE(header.magic_number, 8) \o ToBytesLE(header.format_version, 8)

-----------------------------------------------------------------------------
(* Framing: the try block of the frame loops.                              *)

NoFrame == [ok |-> FALSE, elapsed |-> 0, buffer |-> <<>>]

\* The try block with the payload read that never fails: a truncated last
\* frame is returned short.
TryReadFrameShort(buf, cur) ==
    LET e == UnpackU128(buf, cur)
    IN IF ~e.ok THEN NoFrame @@ [cursor |-> e.cursor]
       ELSE LET s == UnpackU64(buf, e.cursor)
            IN IF ~s.ok THEN NoFrame @@ [cursor |-> s.cursor]
               ELSE LET b == UnpackBytesShort(buf, s.cursor, s.value)
                    IN [ok |-> TRUE, elapsed |-> e.value, buffer |-> b.bytes,
                        cursor |-> b.cursor]

\* elapsed = unpack_u128(); record_size = unpack_u64();
\* buffer = unpack_bytes(record_size); except IndexError: break.
\* ok is FALSE when the loop breaks; the cursor keeps what the reads that
\* succeeded consumed.
TryReadFrame(buf, cur) ==
    LET e == UnpackU128(buf, cur)
    IN IF ~e.ok THEN NoFrame @@ [cursor |-> e.cursor]
       ELSE LET s == UnpackU64(buf, e.cursor)
            IN IF ~s.ok THEN NoFrame @@ [cursor |-> s.cursor]
               ELSE LET b == UnpackBytes(buf, s.cursor, s.value)
                    IN IF ~b.ok THEN NoFrame @@ [cursor |-> b.cursor]
                       ELSE [ok |-> TRUE, elapsed |-> e.value, buffer |-> b.bytes,
                             cursor |-> b.cursor]

\* The try block of iter_state_updates with the payload read that never
\* fails.
StateTryReadFrameShort(buf, cur) == TryReadFrameShort(buf, cur)

\* The try block that, behind a frame it has read, reads the elapsed field
\* of the next frame ahead of the pull that asks for it.
StateTryReadFramePeek(buf, cur) ==
    LET f == TryReadFrame(buf, cur)
        p == UnpackU128(buf, f.cursor)
    IN IF f.ok THEN [f EXCEPT !.cursor = p.cursor] ELSE f

\* The same try block in iter_state_updates of read_state.py.
StateTryReadFrame(buf, cur) ==
    LET e == UnpackU128(buf, cur)
    IN IF ~e.ok THEN NoFrame @@ [cursor |-> e.cursor]
       ELSE LET s == UnpackU64(buf, e.cursor)
            IN IF ~s.ok THEN NoFrame @@ [cursor |-> s.cursor]
               ELSE LET b == UnpackBytes(buf, s.cursor, s.value)
                    IN IF ~b.ok THEN NoFrame @@ [cursor |-> b.cursor]
                       ELSE [ok |-> TRUE, elapsed |-> e.value, buffer |-> b.bytes,
                             cursor |-> b.cursor]

-----------------------------------------------------------------------------
(* Decoded payloads. A Python dict with string keys is a sequence of items *)
(* in insertion order, each a key (a string: a sequence of character       *)
(* codes) and a value.                                                     *)

Item(key, value) == [key |-> key, value |-> value]

\* d[key] = value: the value of a key already present is replaced where the
\* key stands, a new key is added at the end.
DictSet(items, key, value) ==
    IF \E i \in 1..Len(items) : items[i].key = key
    THEN [i \in 1..Len(items) |->
            IF items[i].key = key THEN Item(key, value) ELSE items[i]]
    ELSE Append(items, Item(key, value))

-----------------------------------------------------------------------------
(* The payload codec (the protobuf messages and their conversion to and    *)
(* from dicts). It is outside the two source files; the model gives it a   *)
(* length-prefixed format: an item is the key's length, the key, then      *)
(* either 0 and a scalar byte, or 1, the byte length of a nested dict and  *)
(* the nested dict, or 2 and 0 for None.                                   *)

RECURSIVE EncodeItems(_)
\* SerializeToString of a message holding the dict.
EncodeItems(items) ==
    IF items = <<>> THEN <<>>
    ELSE LET e == items[1]
             v == IF e.value.isdict
                  THEN LET body == EncodeItems(e.value.items)
                       IN <<1, Len(body)>> \o body
                  ELSE IF e.value = None THEN <<2, 0>>
                  ELSE <<0, e.value.val>>
         IN <<Len(e.key)>> \o e.key \o v \o EncodeItems(Tail(items))

\* The longest key the codec encodes.
MaxKeyLen == 12

RECURSIVE EncodableItems(_)
\* Whether the codec can encode the dict: no key is longer than MaxKeyLen,
\* every nested length and scalar fits a byte.
EncodableItems(items) ==
    \A i \in 1..Len(items) :
        /\ Len(items[i].key) <= MaxKeyLen
        /\ IF items[i].value.isdict
           THEN /\ EncodableItems(items[i].value.items)
                /\ Len(EncodeItems(items[i].value.items)) <= 255
           ELSE items[i].value = None \/ items[i].value.val \in 0..255

DecodeFailed == [ok |-> FALSE, items |-> <<>>]

\* The dict of a first item followed by the dict of the items after it: a
\* key that comes again later keeps its place and takes the later value.
DecodedItems(first, later) ==
    LET again == SelectSeq(later, LAMBDA x : x.key = first.key)
        others == SelectSeq(later, LAMBDA x : x.key # first.key)
    IN IF again = <<>> THEN <<first>> \o others ELSE <<again[1]>> \o others

RECURSIVE DecodeItems(_)
\* The codec's decode: ok is FALSE when the bytes are no encoding of a
\* dict. A key met twice keeps its last value.
DecodeItems(b) ==
    IF b = <<>> THEN [ok |-> TRUE, items |-> <<>>]
    ELSE IF Len(b) < b[1] + 3 THEN DecodeFailed
    ELSE LET klen == b[1]
             key == SubSeq(b, 2, klen + 1)
             tag == b[klen + 2]
             arg == b[klen + 3]
             rest == SubSeq(b, klen + 4, Len(b))
         IN IF tag = 0
            THEN LET r == DecodeItems(rest)
                 IN IF r.ok
                    THEN [ok |-> TRUE,
                          items |-> DecodedItems(Item(key, Scalar(arg)), r.items)]
                    ELSE DecodeFailed
            ELSE IF tag = 1 /\ arg <= Len(rest)
            THEN LET inner == DecodeItems(SubSeq(rest, 1, arg))
                     r == DecodeItems(SubSeq(rest, arg + 1, Len(rest)))
                 IN IF inner.ok /\ r.ok
                    THEN [ok |-> TRUE,
                          items |-> DecodedItems(Item(key, Dict(inner.items)), r.items)]
                    ELSE DecodeFailed
            ELSE IF tag = 2 /\ arg = 0
            THEN LET r == DecodeItems(rest)
                 IN IF r.ok
                    THEN [ok |-> TRUE, items |-> DecodedItems(Item(key, None), r.items)]
                    ELSE DecodeFailed
            ELSE DecodeFailed

\* message.ParseFromString(buffer) and the conversion of the message to a
\* dict: the encoding of a dict is decoded to that dict; bytes that are no
\* encoding make the message type raise, or are parsed to a message with no
\* key, as garbage says.
ParseFromString(garbage, b) ==
    LET d == DecodeItems(b)
    IN IF d.ok THEN d
       ELSE IF garbage = "empty" THEN [ok |-> TRUE, items |-> <<>>]
       ELSE DecodeFailed

\* state_update = StateUpdate(); state_update.ParseFromString(buffer);
\* struct_to_dict(state_update.changed_keys), with the library l.
StateUpdateDecode(l, b) == ParseFromString(l.state_update, b)

\* get_frame_response = GetFrameResponse();
\* get_frame_response.ParseFromString(buffer);
\* FrameData(get_frame_response.frame), with the library l.
GetFrameResponseDecode(l, b) == ParseFromString(l.get_frame_response, b)

-----------------------------------------------------------------------------
(* Key renaming. *)

\* 'narupa'
Narupa == <<110, 97, 114, 117, 112, 97>>

\* 'nanover'
Nanover == <<110, 97, 110, 111, 118, 101, 114>>

RECURSIVE StrReplace(_, _, _)
\* s.replace(old, new): every occurrence of old, found left to right
\* without overlap, is replaced by new.
StrReplace(s, old, new) ==
    IF Len(s) < Len(old) THEN s
    ELSE IF SubSeq(s, 1, Len(old)) = old
    THEN new \o StrReplace(SubSeq(s, Len(old) + 1, Len(s)), old, new)
    ELSE <<s[1]>> \o StrReplace(Tail(s), old, new)

RECURSIVE ReplaceItems(_, _, _, _)
RECURSIVE recursive_replace(_, _, _)

\* The dict comprehension {key.replace(..): recursive_replace(value, ..)
\* for key, value in ...}: the items are stored one after the other into
\* the new dict acc.
ReplaceItems(items, acc, to_replace, replace_by) ==
    IF items = <<>> THEN acc
    ELSE ReplaceItems(Tail(items),
                      DictSet(acc,
                              StrReplace(items[1].key, to_replace, replace_by),
                              recursive_replace(items[1].value, to_replace, replace_by)),
                      to_replace, replace_by)

\* recursive_replace(value, to_replace, replace_by): a value that is no dict
\* is returned as it is, a dict is rebuilt with its keys renamed.
recursive_replace(value, to_replace, replace_by) ==
    IF ~value.isdict THEN value
    ELSE Dict(ReplaceItems(value.items, <<>>, to_replace, replace_by))

\* for key, value in update.raw: the (key, value) pairs the comprehension
\* of replace_and_copy_records gets from the decoded update, or the error
\* raised. Iterating the keys of a mapping gives strings, and a string is
\* unpacked into (key, value) only when it has two characters: its first
\* and its second character (held by its code).
RawPairs(items) ==
    IF lib.raw = "message" THEN [error |-> TypeError, pairs |-> <<>>]
    ELSE IF lib.raw = "keys"
    THEN IF \A i \in 1..Len(items) : Len(items[i].key) = 2
         THEN [error |-> NoError,
               pairs |-> [i \in 1..Len(items) |->
                            Item(<<items[i].key[1]>>, Scalar(items[i].key[2]))]]
         ELSE LET bad == CHOOSE i \in 1..Len(items) :
                            /\ Len(items[i].key) # 2
                            /\ \A j \in 1..(i - 1) : Len(items[j].key) = 2
              IN [error |-> ValueError(Len(items[bad].key)), pairs |-> <<>>]
    ELSE [error |-> NoError, pairs |-> items]

\* state_record_as_bytes(timestamp, update_dict): the error raised (or
\* none) and timestamp_bytes + length_bytes + update_bytes.
state_record_as_bytes(timestamp, update_dict) ==
    LET update_bytes == EncodeItems(update_dict)
        length_bytes == ToBytesLE(Len(update_bytes), 8)
        timestamp_bytes == ToBytesLE(timestamp, 16)
    IN IF ~lib.changed_keys THEN [error |-> AttributeError, bytes |-> <<>>]
       ELSE IF ~EncodableItems(update_dict) THEN [error |-> EncodeError, bytes |-> <<>>]
       ELSE [error |-> NoError, bytes |-> timestamp_bytes \o length_bytes \o update_bytes]

-----------------------------------------------------------------------------
(* Input files: a header, complete frames and a tail, laid out as the      *)
(* recorder writes them.                                                   *)

\* 'narupa.pos'
NarupaPos == Narupa \o <<46, 112, 111, 115>>

\* {'narupa.pos': 1}
UpdatePos == <<Item(NarupaPos, Scalar(1))>>

\* {'a': {'narupa': 2}, 'b': None}
UpdateNested == <<Item(<<97>>, Dict(<<Item(Narupa, Scalar(2))>>)), Item(<<98>>, None)>>

\* {'narupa': 1, 'nanover': 2}: both keys are renamed to 'nanover'.
UpdateCollide == <<Item(Narupa, Scalar(1)), Item(Nanover, Scalar(2))>>

\* {'c': {'nanover': 4, 'narupa': 5}}: the keys of the nested dict collide.
UpdateNestedCollide ==
    <<Item(<<99>>, Dict(<<Item(Nanover, Scalar(4)), Item(Narupa, Scalar(5))>>))>>

\* {'narupa.posit': 4}: a key of MaxKeyLen characters, one more when renamed.
UpdateLongKey == <<Item(Narupa \o <<46, 112, 111, 115, 105, 116>>, Scalar(4))>>

\* A payload that is no encoding of a dict: a key length with no key.
BadPayload == <<5, 110>>

\* The payloads of the model's frames.
Payloads ==
    {EncodeItems(<<>>), EncodeItems(UpdatePos), EncodeItems(UpdateNested),
     EncodeItems(UpdateCollide), EncodeItems(UpdateNestedCollide),
     EncodeItems(UpdateLongKey), BadPayload}

\* The elapsed values of the model's frames: one and two significant bytes.
Elapsed == {7, 300}

\* The frames of the model: every payload with the elapsed value 7, and the
\* empty dict and {'narupa.pos': 1} with every elapsed value.
FrameSet ==
    [elapsed : {7}, payload : Payloads]
    \cup [elapsed : Elapsed, payload : {EncodeItems(<<>>), EncodeItems(UpdatePos)}]

\* A frame as the recorder writes it: elapsed (16 bytes), the payload's
\* length (8 bytes), the payload.
FrameBytes(f) ==
    ToBytesLE(f.elapsed, 16) \o ToBytesLE(Len(f.payload), 8) \o f.payload

RECURSIVE FramesBytes(_)
FramesBytes(fs) ==
    IF fs = <<>> THEN <<>> ELSE FrameBytes(fs[1]) \o FramesBytes(Tail(fs))

\* The frame whose beginnings are the tails of the model's files.
TailFrame == [elapsed |-> 300, payload |-> EncodeItems(UpdatePos)]

\* Bytes shorter than a full next frame: every strict prefix of a frame.
Tails ==
    {SubSeq(FrameBytes(TailFrame), 1, n) : n \in 0..(Len(FrameBytes(TailFrame)) - 1)}

\* The first fields a file may hold: the magic number and two others.
Magics == {MAGIC_NUMBER, MAGIC_NUMBER + 1, MAGIC_NUMBER + 256}

\* The version fields a file may hold.
Versions == {1, 2, 3, 258}

NoFile == [magic |-> 0, version |-> 0, hcut |-> 0, frames |-> <<>>, tail |-> <<>>]

\* The bytes of a file: the first hcut bytes of the header, the frames, the tail.
FileBytes(f) ==
    SubSeq(ToBytesLE(f.magic, 8) \o ToBytesLE(f.version, 8), 1, f.hcut)
    \o FramesBytes(f.frames) \o f.tail

\* Whether the file's header is whole, with the magic number and a
\* supported version.
ValidHeader(f) ==
    f.hcut = 16 /\ f.magic = MAGIC_NUMBER /\ f.version = 2

\* The files of the model: a valid header with up to MaxFrames frames and a
\* tail; any header with at most one frame; a truncated header alone.
Files ==
    {[magic |-> MAGIC_NUMBER, version |-> 2, hcut |-> 16, frames |-> fs, tail |-> t] :
        fs \in SeqsUpTo(FrameSet, MaxFrames), t \in Tails}
    \cup
    {[magic |-> m, version |-> v, hcut |-> 16, frames |-> fs, tail |-> <<>>] :
        m \in Magics, v \in Versions, fs \in SeqsUpTo(FrameSet, 1)}
    \cup
    {[magic |-> m, version |-> v, hcut |-> c, frames |-> <<>>, tail |-> <<>>] :
        m \in Magics, v \in Versions, c \in 0..15}

-----------------------------------------------------------------------------
(* The aggregator generator. AggStart runs the body up to the for loop,    *)
(* AggPull is the for loop asking the input iterable for its next item,    *)
(* AggEmit is the loop body up to and including the yield, AggEnd is the   *)
(* input iterable being exhausted.                                         *)

\* No reader runs.
RdIdle ==
    /\ lib = LibUnused
    /\ printed = <<>>
    /\ reader = "none"
    /\ file = NoFile
    /\ buffer = <<>>
    /\ cursor = 0
    /\ rd_pc = "idle"
    /\ error = NoError
    /\ frames = <<>>
    /\ written = <<>>
    /\ stops = 0

\* No aggregator runs.
AggIdle ==
    /\ agg_kind = "none"
    /\ updates = <<>>
    /\ pulled = 0
    /\ heap = <<>>
    /\ aggregate_state = 0
    /\ yielded = <<>>
    /\ seen = <<>>
    /\ agg_pc = "idle"
    /\ earlier = <<>>

AggInit ==
    /\ agg_kind \in {"states", "trajectories"}
    /\ updates \in SeqsUpTo(Items, MaxUpdates)
    /\ pulled = 0
    /\ heap = <<>>
    /\ aggregate_state = 0
    /\ yielded = <<>>
    /\ seen = <<>>
    /\ agg_pc = "start"
    /\ earlier = <<>>
    /\ RdIdle

\* The dict an aggregator gets from a reader's frame: each key of the decoded
\* items with its value.
ItemsToDict(items) ==
    [k \in {items[i].key : i \in 1..Len(items)} |->
        items[CHOOSE i \in 1..Len(items) :
                 /\ items[i].key = k
                 /\ \A j \in (i + 1)..Len(items) : items[j].key # k].value]

\* The start of a run that binds the name to the dict object an earlier run
\* left, when there is one, instead of a new dict.
AggStartReuse ==
    /\ agg_pc = "start"
    /\ heap' = IF heap = <<>> THEN Append(heap, EmptyDict) ELSE heap
    /\ aggregate_state' = Len(heap')
    /\ agg_pc' = "loop"
    /\ UNCHANGED <<agg_kind, updates, pulled, yielded, seen, earlier>>
    /\ UNCHANGED rd_vars

\* aggregate_state = {}
AggStart ==
    /\ agg_pc = "start"
    /\ heap' = Append(heap, EmptyDict)
    /\ aggregate_state' = Len(heap) + 1
    /\ agg_pc' = "loop"
    /\ UNCHANGED <<agg_kind, updates, pulled, yielded, seen, earlier>>
    /\ UNCHANGED rd_vars

\* for timestamp, update in updates: the next item is pulled
AggPull ==
    /\ reader = "none"
    /\ agg_pc = "loop"
    /\ pulled < Len(updates)
    /\ pulled' = pulled + 1
    /\ agg_pc' = "body"
    /\ UNCHANGED <<agg_kind, updates, heap, aggregate_state, yielded, seen, earlier>>
    /\ UNCHANGED rd_vars

\* The heap after aggregate_state.update(update): the object the name is
\* bound to is changed in place.
HeapAfterUpdate(h, ref, update) ==
    [h EXCEPT ![ref] = DictUpdate(h[ref], update)]

\* The pair handed to the consumer, wrongly stamped with the first item's time.
YieldedPairFirstTime(item, ref) ==
    [timestamp |-> updates[1].timestamp, ref |-> ref]

\* yield (timestamp, aggregate_state): the item's timestamp and a reference
\* to the dict object.
YieldedPair(item, ref) ==
    [timestamp |-> item.timestamp, ref |-> ref]

\* The loop body: update in place, rebind the name to a new filtered dict,
\* yield (timestamp, aggregate_state).
AggEmit ==
    /\ agg_pc = "body"
    /\ (agg_kind = "trajectories" /\ reader = "traj") => lib.mapping
    /\ LET item == updates[pulled]
           h1 == HeapAfterUpdate(heap, aggregate_state, item.update)
           new == DropNone(h1[aggregate_state])
           h2 == Append(h1, new)
           ref == Len(h2)
       IN /\ heap' = h2
          /\ aggregate_state' = ref
          /\ yielded' = Append(yielded, YieldedPair(item, ref))
          /\ seen' = Append(seen, h2[ref])
    /\ agg_pc' = "loop"
    /\ UNCHANGED <<agg_kind, updates, pulled, earlier>>
    /\ UNCHANGED rd_vars

\* The input iterable is exhausted: the generator returns.
AggEnd ==
    /\ reader = "none"
    /\ agg_pc = "loop"
    /\ pulled = Len(updates)
    /\ agg_pc' = "done"
    /\ UNCHANGED <<agg_kind, updates, pulled, heap, aggregate_state, yielded, seen, earlier>>
    /\ UNCHANGED rd_vars

AggNext == AggStart \/ AggPull \/ AggEmit \/ AggEnd

SpecAgg == AggInit /\ [][AggNext]_vars

\* The objects the consumer holds, as they are now.
Held == [i \in 1..Len(yielded) |-> heap[yielded[i].ref]]

\* The aggregator is called again on the same update sequence after a run
\* that ended: a new generator, whose local name is not bound yet. The
\* consumer keeps the pairs of the ended run, and the objects stay on the
\* heap.
AggRestart ==
    /\ agg_pc = "done"
    /\ earlier = <<>>
    /\ earlier' = <<[yielded |-> yielded, seen |-> seen, held |-> Held]>>
    /\ pulled' = 0
    /\ aggregate_state' = 0
    /\ yielded' = <<>>
    /\ seen' = <<>>
    /\ agg_pc' = "start"
    /\ UNCHANGED <<agg_kind, updates, heap>>
    /\ UNCHANGED rd_vars

AggTwiceNext == AggNext \/ AggRestart

\* Two runs of an aggregator on the same update sequence, one after the other.
SpecAggTwice == AggInit /\ [][AggTwiceNext]_vars

-----------------------------------------------------------------------------
(* The readers. A reader starts at "header"; each frame action is one pull *)
(* of the consumer from the generator.                                     *)

\* recordings.Unpacker(data): the buffer is the file, the cursor is 0.
RdInit(readers) ==
    /\ reader \in readers
    /\ lib \in IF reader = "rewrite" THEN RewriteLibs
              ELSE IF reader = "state" THEN StateLibs ELSE TrajLibs
    /\ printed = <<>>
    /\ file \in Files
    /\ buffer = FileBytes(file)
    /\ cursor = 0
    /\ rd_pc = "header"
    /\ error = NoError
    /\ frames = <<>>
    /\ written = <<>>
    /\ stops = 0
    /\ AggIdle

\* What a frame loop hands on for a frame it has read and decoded.
YieldedFrame(f, d) ==
    [elapsed |-> f.elapsed, payload |-> f.buffer, update |-> d.items]

\* iter_state_updates up to its loop: the header check.
StateHeader ==
    /\ reader = "state"
    /\ agg_kind = "none"
    /\ rd_pc = "header"
    /\ LET h == state_header_check(buffer, cursor)
       IN /\ cursor' = h.cursor
          /\ error' = h.error
          /\ rd_pc' = IF h.error.name = "none" THEN "frames" ELSE "failed"
    /\ UNCHANGED <<lib, printed, stops, reader, file, buffer, frames, written>>
    /\ UNCHANGED agg_vars

\* The loop turn with the decode inside the try block: a decode failure
\* ends the sequence as a framing failure does.
StateFrameSwallows ==
    /\ reader = "state"
    /\ agg_kind = "none"
    /\ rd_pc = "frames"
    /\ LET f == StateTryReadFrame(buffer, cursor)
           d == StateUpdateDecode(lib, f.buffer)
       IN /\ cursor' = f.cursor
          /\ IF ~f.ok \/ ~d.ok
             THEN rd_pc' = "done" /\ UNCHANGED <<error, frames>>
             ELSE /\ frames' = Append(frames, YieldedFrame(f, d))
                  /\ UNCHANGED <<rd_pc, error>>
    /\ UNCHANGED <<lib, printed, stops, reader, file, buffer, written>>
    /\ UNCHANGED agg_vars

\* One turn of the loop of iter_state_updates: the try block, then the
\* payload is decoded and the update yielded.
StateFrame ==
    /\ reader = "state"
    /\ agg_kind = "none"
    /\ rd_pc = "frames"
    /\ LET f == StateTryReadFrame(buffer, cursor)
           d == StateUpdateDecode(lib, f.buffer)
       IN /\ cursor' = f.cursor
          /\ IF ~f.ok
             THEN rd_pc' = "done" /\ UNCHANGED <<error, frames>>
             ELSE IF ~d.ok
             THEN rd_pc' = "failed" /\ error' = DecodeError /\ UNCHANGED frames
             ELSE /\ frames' = Append(frames, YieldedFrame(f, d))
                  /\ UNCHANGED <<rd_pc, error>>
    /\ UNCHANGED <<lib, printed, stops, reader, file, buffer, written>>
    /\ UNCHANGED agg_vars

\* iter_traj_file: header = read_header(unpacker).
TrajHeader ==
    /\ reader = "traj"
    /\ agg_kind = "none"
    /\ rd_pc = "header"
    /\ LET h == read_header(buffer, cursor)
       IN /\ cursor' = h.cursor
          /\ error' = h.error
          /\ rd_pc' = IF h.error.name = "none" THEN "frames" ELSE "failed"
    /\ UNCHANGED <<lib, printed, stops, reader, file, buffer, frames, written>>
    /\ UNCHANGED agg_vars

\* One turn of the loop of iter_traj_updates.
TrajFrame ==
    /\ reader = "traj"
    /\ agg_kind = "none"
    /\ rd_pc = "frames"
    /\ LET f == TryReadFrame(buffer, cursor)
           d == GetFrameResponseDecode(lib, f.buffer)
       IN /\ cursor' = f.cursor
          /\ IF ~f.ok
             THEN rd_pc' = "done" /\ UNCHANGED <<error, frames>>
             ELSE IF ~d.ok
             THEN rd_pc' = "failed" /\ error' = DecodeError /\ UNCHANGED frames
             ELSE /\ frames' = Append(frames, YieldedFrame(f, d))
                  /\ UNCHANGED <<rd_pc, error>>
    /\ UNCHANGED <<lib, printed, stops, reader, file, buffer, written>>
    /\ UNCHANGED agg_vars

\* A pull that sends a finished generator back into its loop.
PullAfterEndRetries ==
    /\ reader \in {"state", "traj"}
    /\ agg_kind = "none"
    /\ rd_pc \in {"done", "failed"}
    /\ stops < MaxPullsAfterEnd
    /\ stops' = stops + 1
    /\ rd_pc' = IF rd_pc = "done" THEN "frames" ELSE rd_pc
    /\ UNCHANGED <<lib, printed>>
    /\ UNCHANGED <<reader, file, buffer, cursor, error, frames, written>>
    /\ UNCHANGED agg_vars

\* A pull after the generator returned (the break of the frame loop) or
\* raised: the generator is finished, none of its code runs and the consumer
\* gets StopIteration.
PullAfterEnd ==
    /\ reader \in {"state", "traj"}
    /\ agg_kind = "none"
    /\ rd_pc \in {"done", "failed"}
    /\ stops < MaxPullsAfterEnd
    /\ stops' = stops + 1
    /\ UNCHANGED <<lib, printed>>
    /\ UNCHANGED <<reader, file, buffer, cursor, rd_pc, error, frames, written>>
    /\ UNCHANGED agg_vars

ReadInit == RdInit({"state", "traj"})

ReadNext == StateHeader \/ StateFrame \/ TrajHeader \/ TrajFrame \/ PullAfterEnd

SpecRead == ReadInit /\ [][ReadNext]_vars

-----------------------------------------------------------------------------
(* The rewrite: replace_narupa(unpacker, writer).                          *)

\* copy_header that writes the header bytes before it validates them.
CopyHeaderWritesFirst(buf, cur) ==
    LET h == read_header(buf, cur)
    IN [error |-> h.error, cursor |-> h.cursor,
        writes |-> <<SubSeq(buf, 1, h.cursor)>>]

\* copy_header(unpacker, writer): read_header, then
\* writer.write(header.as_bytes()); nothing is written when read_header raises.
CopyHeader(buf, cur) ==
    LET h == read_header(buf, cur)
    IN [error |-> h.error, cursor |-> h.cursor,
        writes |-> IF h.error.name = "none" THEN <<HeaderAsBytes(h.header)>> ELSE <<>>]

\* header = copy_header(unpacker, writer)
RwCopyHeader ==
    /\ reader = "rewrite"
    /\ rd_pc = "header"
    /\ LET c == CopyHeader(buffer, cursor)
       IN /\ cursor' = c.cursor
          /\ error' = c.error
          /\ written' = written \o c.writes
          /\ rd_pc' = IF c.error.name = "none" THEN "frames" ELSE "failed"
    /\ UNCHANGED <<lib, printed, stops, reader, file, buffer, frames>>
    /\ UNCHANGED agg_vars

\* The loop turn with the record written piece by piece: the timestamp is
\* written before the dict is encoded.
RwRecordWritesEarly ==
    /\ reader = "rewrite"
    /\ rd_pc = "frames"
    /\ LET f == TryReadFrame(buffer, cursor)
           d == GetFrameResponseDecode(lib, f.buffer)
           raw == RawPairs(d.items)
           new_update_dict == ReplaceItems(raw.pairs, <<>>, Narupa, Nanover)
           record == state_record_as_bytes(f.elapsed, new_update_dict)
       IN /\ cursor' = f.cursor
          /\ IF ~f.ok
             THEN rd_pc' = "done" /\ UNCHANGED <<error, frames, written, printed>>
             ELSE IF ~d.ok
             THEN /\ rd_pc' = "failed"
                  /\ error' = DecodeError
                  /\ UNCHANGED <<frames, written, printed>>
             ELSE /\ frames' = Append(frames, YieldedFrame(f, d))
                  /\ printed' = Append(printed, TypeOfUpdate)
                  /\ IF raw.error # NoError
                     THEN rd_pc' = "failed" /\ error' = raw.error /\ UNCHANGED written
                     ELSE IF record.error # NoError
                     THEN /\ rd_pc' = "failed"
                          /\ error' = record.error
                          /\ written' = Append(written, ToBytesLE(f.elapsed, 16))
                     ELSE /\ written' = Append(written, record.bytes)
                          /\ UNCHANGED <<rd_pc, error>>
    /\ UNCHANGED <<lib, stops, reader, file, buffer>>
    /\ UNCHANGED agg_vars

\* One turn of the loop of replace_and_copy_records: a frame is pulled from
\* iter_traj_updates (read and decoded), the type of the update is printed,
\* the comprehension over update.raw builds the renamed dict, the record is
\* encoded and written. An error at any of these places leaves the loop.
RwRecord ==
    /\ reader = "rewrite"
    /\ rd_pc = "frames"
    /\ LET f == TryReadFrame(buffer, cursor)
           d == GetFrameResponseDecode(lib, f.buffer)
           raw == RawPairs(d.items)
           new_update_dict == ReplaceItems(raw.pairs, <<>>, Narupa, Nanover)
           record == state_record_as_bytes(f.elapsed, new_update_dict)
       IN /\ cursor' = f.cursor
          /\ IF ~f.ok
             THEN rd_pc' = "done" /\ UNCHANGED <<error, frames, written, printed>>
             ELSE IF ~d.ok
             THEN /\ rd_pc' = "failed"
                  /\ error' = DecodeError
                  /\ UNCHANGED <<frames, written, printed>>
             ELSE /\ frames' = Append(frames, YieldedFrame(f, d))
                  /\ printed' = Append(printed, TypeOfUpdate)
                  /\ IF raw.error # NoError
                     THEN rd_pc' = "failed" /\ error' = raw.error /\ UNCHANGED written
                     ELSE IF record.error # NoError
                     THEN rd_pc' = "failed" /\ error' = record.error /\ UNCHANGED written
                     ELSE /\ written' = Append(written, record.bytes)
                          /\ UNCHANGED <<rd_pc, error>>
    /\ UNCHANGED <<lib, stops, reader, file, buffer>>
    /\ UNCHANGED agg_vars

RewriteInit == RdInit({"rewrite"})

RewriteNext == RwCopyHeader \/ RwRecord

SpecRewrite == RewriteInit /\ [][RewriteNext]_vars

-----------------------------------------------------------------------------
(* Any one of the programs. *)

-----------------------------------------------------------------------------
(* command_line --full: the aggregator's input iterable is the generator   *)
(* of a reader, iter_full_states(iter_state_file(path)) or                 *)
(* iter_full_trajectories(iter_traj_file(path)). The reader runs only when *)
(* the aggregator's for loop pulls from it, and what the reader raises     *)
(* goes through the aggregator to the caller.                              *)

\* The payloads of the frames of an aggregated file: {'a': 1}, {'b': 2},
\* {'a': None} and a payload the codec does not decode.
FullPayloads ==
    {EncodeItems(<<Item(<<97>>, Scalar(1))>>), EncodeItems(<<Item(<<98>>, Scalar(2))>>),
     EncodeItems(<<Item(<<97>>, None)>>), BadPayload}

FullFrameSet == [elapsed : Timestamps, payload : FullPayloads]

\* The tails of an aggregated file: none, a cut elapsed field, a cut payload.
FullTails == {t \in Tails : Len(t) \in {0, 9, 30}}

\* The files of an aggregation: a valid header with up to MaxFrames frames
\* and a tail, and the files of the model whose header is not accepted.
FullFiles ==
    {[magic |-> MAGIC_NUMBER, version |-> 2, hcut |-> 16, frames |-> fs, tail |-> t] :
        fs \in SeqsUpTo(FullFrameSet, MaxFrames), t \in FullTails}
    \cup {f \in Files : ~ValidHeader(f)}

\* stream = iter_state_file(path); stream = iter_full_states(stream), or the
\* same of read_traj.py: no line of either generator has run.
FullInit ==
    /\ reader \in {"state", "traj"}
    /\ agg_kind = IF reader = "state" THEN "states" ELSE "trajectories"
    /\ lib \in IF reader = "traj" THEN FullLibs ELSE StateLibs
    /\ file \in FullFiles
    /\ buffer = FileBytes(file)
    /\ cursor = 0
    /\ rd_pc = "header"
    /\ error = NoError
    /\ frames = <<>>
    /\ written = <<>>
    /\ stops = 0
    /\ printed = <<>>
    /\ updates = <<>>
    /\ pulled = 0
    /\ heap = <<>>
    /\ aggregate_state = 0
    /\ yielded = <<>>
    /\ seen = <<>>
    /\ agg_pc = "start"
    /\ earlier = <<>>

\* The first pull of the for loop starts the reader: the file is read into
\* the Unpacker and the header is checked. A header error ends both
\* generators.
FullHeader ==
    /\ reader \in {"state", "traj"}
    /\ agg_kind # "none"
    /\ agg_pc = "loop"
    /\ rd_pc = "header"
    /\ LET h == IF reader = "state" THEN state_header_check(buffer, cursor)
                ELSE [error |-> read_header(buffer, cursor).error,
                      cursor |-> read_header(buffer, cursor).cursor]
       IN /\ cursor' = h.cursor
          /\ error' = h.error
          /\ rd_pc' = IF h.error.name = "none" THEN "frames" ELSE "failed"
          /\ agg_pc' = IF h.error.name = "none" THEN "loop" ELSE "failed"
    /\ UNCHANGED <<lib, printed, stops, reader, file, buffer, frames, written>>
    /\ UNCHANGED <<agg_kind, updates, pulled, heap, aggregate_state, yielded, seen, earlier>>

\* The for loop pulls the next item from the reader: one turn of the
\* reader's frame loop. A frame that is read and decoded is the item of the
\* loop body; the end of the frames ends the for loop; a decode error ends
\* both generators.
FullFrame ==
    /\ reader \in {"state", "traj"}
    /\ agg_kind # "none"
    /\ agg_pc = "loop"
    /\ rd_pc = "frames"
    /\ LET f == IF reader = "state" THEN StateTryReadFrame(buffer, cursor)
                ELSE TryReadFrame(buffer, cursor)
           d == IF reader = "state" THEN StateUpdateDecode(lib, f.buffer)
                ELSE GetFrameResponseDecode(lib, f.buffer)
       IN /\ cursor' = f.cursor
          /\ IF ~f.ok
             THEN /\ rd_pc' = "done"
                  /\ agg_pc' = "done"
                  /\ UNCHANGED <<error, frames, updates, pulled>>
             ELSE IF ~d.ok
             THEN /\ rd_pc' = "failed"
                  /\ agg_pc' = "failed"
                  /\ error' = DecodeError
                  /\ UNCHANGED <<frames, updates, pulled>>
             ELSE /\ frames' = Append(frames, YieldedFrame(f, d))
                  /\ updates' = Append(updates,
                                       [timestamp |-> f.elapsed, frame_index |-> 0,
                                        update |-> ItemsToDict(d.items)])
                  /\ pulled' = pulled + 1
                  /\ agg_pc' = "body"
                  /\ UNCHANGED <<rd_pc, error>>
    /\ UNCHANGED <<lib, printed, stops, reader, file, buffer, written>>
    /\ UNCHANGED <<agg_kind, heap, aggregate_state, yielded, seen, earlier>>

\* aggregate_traj.update(update) with a FrameData that dict.update does not
\* accept: the TypeError ends the aggregator; the reader stays where it
\* yielded.
FullUpdateRaises ==
    /\ agg_kind = "trajectories"
    /\ reader = "traj"
    /\ agg_pc = "body"
    /\ ~lib.mapping
    /\ agg_pc' = "failed"
    /\ error' = TypeError
    /\ UNCHANGED <<lib, printed, stops, reader, file, buffer, cursor, rd_pc, frames, written>>
    /\ UNCHANGED <<agg_kind, updates, pulled, heap, aggregate_state, yielded, seen, earlier>>

FullNext == AggStart \/ FullHeader \/ FullFrame \/ AggEmit \/ FullUpdateRaises

SpecFull == FullInit /\ [][FullNext]_vars

Init == AggInit \/ ReadInit \/ RewriteInit \/ FullInit

\* AggStart and AggEmit of the aggregation fed by a reader are those of
\* AggNext.
Next ==
    AggNext \/ ReadNext \/ RewriteNext \/ FullHeader \/ FullFrame \/ FullUpdateRaises

Spec == Init /\ [][Next]_vars

-----------------------------------------------------------------------------
(* The aggregation contract of the specification, as a reference: a left   *)
(* fold of the updates from the empty mapping.                             *)

\* One update applied to a state: a present value sets the key, None removes it.
ApplyUpdate(state, u) ==
    LET removed == {k \in DOMAIN u : u[k] = None}
        kept == (DOMAIN state \cup DOMAIN u) \ removed
    IN [k \in kept |-> IF k \in DOMAIN u THEN u[k] ELSE state[k]]

RECURSIVE FoldUpdates(_, _)
\* The fold of the updates of items 1..i of us.
FoldUpdates(us, i) ==
    IF i = 0 THEN EmptyDict ELSE ApplyUpdate(FoldUpdates(us, i - 1), us[i].update)

\* The update mappings of the input, without timestamps.
UpdateSeq == [i \in 1..Len(updates) |-> updates[i].update]

\* The example of the specification: [{a:1}, {a:None}, {b:2}].
TombstoneExample ==
    << [k \in {<<97>>} |-> Scalar(1)], [k \in {<<97>>} |-> None],
       [k \in {<<98>>} |-> Scalar(2)] >>

\* Its snapshots: {a:1}, {}, {b:2}.
TombstoneSnapshots ==
    << [k \in {<<97>>} |-> Scalar(1)], EmptyDict, [k \in {<<98>>} |-> Scalar(2)] >>

\* C1: every snapshot, when it is yielded, is the left fold of the updates
\* pulled so far from the empty mapping (a value sets its key, None removes
\* it), so it maps no key to None; and [{a:1}, {a:None}, {b:2}] yields
\* {a:1}, {}, {b:2}.
C1_SnapshotIsFold ==
    /\ Len(seen) = Len(yielded)
    /\ \A i \in 1..Len(yielded) :
          /\ seen[i] = FoldUpdates(updates, i)
          /\ \A k \in DOMAIN seen[i] : seen[i][k] # None
    /\ (agg_pc = "loop" /\ Len(yielded) > 0) =>
          heap[yielded[Len(yielded)].ref] = FoldUpdates(updates, Len(yielded))
    /\ (agg_pc = "done" /\ UpdateSeq = TombstoneExample) => seen = TombstoneSnapshots

\* The tombstone example has run to its end and gave {a:1}, {}, {b:2}.
C1_Witness ==
    /\ agg_pc = "done"
    /\ UpdateSeq = TombstoneExample
    /\ seen = TombstoneSnapshots

\* C2: a snapshot the consumer holds keeps the contents it had when it was
\* yielded, however many further items are pulled.
C2_SnapshotUnchangedByLaterPulls ==
    \A i \in 1..Len(yielded) : heap[yielded[i].ref] = seen[i]

\* C3: one output per input, in input order, each with its input's
\* timestamp, and output i is yielded before input i+1 is pulled.
C3_OneOutputPerInput ==
    /\ Len(yielded) <= pulled
    /\ pulled <= Len(yielded) + 1
    /\ agg_pc \in {"loop", "done"} => pulled = Len(yielded)
    /\ agg_pc = "body" => pulled = Len(yielded) + 1
    /\ agg_pc = "done" => Len(yielded) = Len(updates)
    /\ \A i \in 1..Len(yielded) : yielded[i].timestamp = updates[i].timestamp

\* A run of three items with differing timestamps has ended with three outputs.
C3_Witness ==
    /\ agg_pc = "done"
    /\ Len(updates) = 3
    /\ Len(yielded) = 3
    /\ yielded[1].timestamp # yielded[2].timestamp
    /\ yielded[3].timestamp = updates[3].timestamp

-----------------------------------------------------------------------------
(* The readers' claims. *)

\* The elapsed values and payloads of the frames yielded, in order.
YieldedRaw == [i \in 1..Len(frames) |-> [elapsed |-> frames[i].elapsed,
                                         payload |-> frames[i].payload]]

\* What the reader that runs decodes the payload b to: the state reader
\* with StateUpdate, the trajectory reader and the rewrite with
\* GetFrameResponse.
Decoded(b) ==
    IF reader = "state" THEN StateUpdateDecode(lib, b)
    ELSE GetFrameResponseDecode(lib, b)

\* Whether the reader that runs decodes every payload of fs.
AllDecodable(fs) == \A i \in 1..Len(fs) : Decoded(fs[i].payload).ok

IsPrefix(a, b) == Len(a) <= Len(b) /\ a = SubSeq(b, 1, Len(a))

\* The file begins with a whole u64 that is not the magic number.
WrongMagic == file.hcut >= 8 /\ file.magic # MAGIC_NUMBER

\* C4: with a first u64 that is not the magic number, the header check
\* fails with InvalidMagicNumber, the cursor stands after the 8 magic bytes
\* (the version is not read) and no frame is yielded.
C4_WrongMagicFails ==
    (reader \in {"state", "traj"} /\ WrongMagic) =>
        /\ frames = <<>>
        /\ rd_pc \in {"header", "failed"}
        /\ rd_pc = "header" => cursor = 0
        /\ rd_pc = "failed" => (error = InvalidMagicNumber /\ cursor = 8)

\* A file with a wrong magic number, a supported version and a frame was
\* refused by read_header.
C4_Witness ==
    /\ reader = "traj"
    /\ WrongMagic
    /\ file.version = 2
    /\ file.frames # <<>>
    /\ rd_pc = "failed"
    /\ error = InvalidMagicNumber
    /\ cursor = 8

\* The file has a whole header with the magic number.
RightMagic == file.hcut = 16 /\ file.magic = MAGIC_NUMBER

\* C5: with the magic number and a version v other than 2, the header
\* check fails with UnsuportedFormatVersion carrying v and the supported
\* set {2}, and no frame is read or yielded; with version 2 it succeeds.
C5_UnsupportedVersionFails ==
    (reader \in {"state", "traj"} /\ RightMagic) =>
        /\ (file.version # 2) =>
              /\ frames = <<>>
              /\ rd_pc \in {"header", "failed"}
              /\ rd_pc = "failed" =>
                    /\ error.name = "UnsuportedFormatVersion"
                    /\ error.args = <<file.version, {2}>>
                    /\ cursor = 16
        /\ (file.version = 2 /\ rd_pc # "header") =>
              /\ cursor >= 16
              /\ error.name \notin
                    {"InvalidMagicNumber", "UnsuportedFormatVersion", "IndexError"}

\* A file of version 258 with a frame was refused, the error carrying 258.
C5_Witness ==
    /\ reader = "state"
    /\ RightMagic
    /\ file.frames # <<>>
    /\ rd_pc = "failed"
    /\ error = [name |-> "UnsuportedFormatVersion", args |-> <<258, {2}>>]

\* A valid header followed by frames the codec decodes, and a tail shorter
\* than a frame.
WellFormed == ValidHeader(file) /\ AllDecodable(file.frames)

\* C6: from a valid header followed by well-formed frames, the frames are
\* yielded in file order, each with its elapsed value and payload, and
\* exactly as many as the file holds, whatever tail shorter than a frame
\* follows them.
C6_FramesInFileOrder ==
    (reader \in {"state", "traj"} /\ WellFormed) =>
        /\ rd_pc # "failed"
        /\ IsPrefix(YieldedRaw, file.frames)
        /\ rd_pc = "done" => YieldedRaw = file.frames

\* Two different frames followed by a frame header with a short payload
\* were read to the end.
C6_Witness ==
    /\ reader = "traj"
    /\ WellFormed
    /\ rd_pc = "done"
    /\ Len(file.frames) = 2
    /\ file.frames[1] # file.frames[2]
    /\ Len(file.tail) > 24
    /\ YieldedRaw = file.frames

\* C7: after a valid header, a frame cut short in its elapsed field, its
\* length field or its payload ends the sequence without an error, after
\* exactly the complete frames before it; a header and one frame header
\* with a short payload yield no frame.
C7_TruncationIsEndOfFile ==
    (reader \in {"state", "traj"} /\ WellFormed /\ file.tail # <<>>) =>
        /\ error = NoError
        /\ rd_pc \in {"header", "frames", "done"}
        /\ Len(frames) <= Len(file.frames)
        /\ rd_pc = "done" =>
              /\ Len(frames) = Len(file.frames)
              /\ cursor <= Len(buffer)
              /\ Len(buffer) - cursor <= Len(file.tail)
        /\ (rd_pc = "done" /\ file.frames = <<>>) => frames = <<>>

\* A header and one frame header whose payload is short: no frame, no error.
C7_Witness ==
    /\ reader = "state"
    /\ ValidHeader(file)
    /\ file.frames = <<>>
    /\ Len(file.tail) >= 24
    /\ rd_pc = "done"
    /\ frames = <<>>
    /\ error = NoError

\* The header is cut short: fewer than 8 bytes, or the magic number and
\* fewer than 8 bytes more.
TruncatedHeader ==
    file.hcut < 8 \/ (file.hcut < 16 /\ file.magic = MAGIC_NUMBER)

\* C8: a header cut short raises the cursor's IndexError to the caller; the
\* reader does not end as an empty sequence of frames.
C8_TruncatedHeaderRaises ==
    (reader \in {"state", "traj"} /\ TruncatedHeader) =>
        /\ frames = <<>>
        /\ rd_pc \in {"header", "failed"}
        /\ rd_pc = "failed" => error = IndexError

\* The magic number followed by 4 bytes was refused with IndexError.
C8_Witness ==
    /\ reader = "state"
    /\ file.magic = MAGIC_NUMBER
    /\ file.hcut = 12
    /\ Len(buffer) = 12
    /\ rd_pc = "failed"
    /\ error = IndexError

-----------------------------------------------------------------------------
(* The rewrite's claims. *)

\* The frame records written: every write after the first.
Records == SubSeq(written, 2, Len(written))

\* C9: on a source with a valid header, the first write to the destination
\* is the source's 16 header bytes, byte for byte, and no frame record is
\* written before it.
C9_HeaderCopiedFirst ==
    (reader = "rewrite" /\ ValidHeader(file)) =>
        /\ rd_pc = "header" => (written = <<>> /\ frames = <<>>)
        /\ rd_pc # "header" =>
              /\ Len(written) >= 1
              /\ written[1] = SubSeq(buffer, 1, 16)
              /\ Len(written[1]) = 16
              /\ Len(Records) <= Len(frames)

\* A source with two frames was rewritten to the end behind its header.
C9_Witness ==
    /\ reader = "rewrite"
    /\ ValidHeader(file)
    /\ rd_pc = "done"
    /\ Len(written) = 3
    /\ written[1] = SubSeq(buffer, 1, 16)

\* Whether the codec encodes the renamed dict of every frame of fs.
AllEncodable(fs) ==
    \A i \in 1..Len(fs) :
        EncodableItems(ReplaceItems(Decoded(fs[i].payload).items, <<>>,
                                    Narupa, Nanover))

\* C10: for a source with n complete frames that the codec decodes and
\* whose renamed dicts it encodes, the
\* destination holds n records in source order; record i begins with source
\* frame i's elapsed value in 16 little-endian bytes, then 8 little-endian
\* bytes giving the length of the encoded payload that follows.
C10_FramingPreserved ==
    (reader = "rewrite" /\ WellFormed /\ AllEncodable(file.frames)) =>
        /\ rd_pc # "failed"
        /\ Len(Records) <= Len(file.frames)
        /\ rd_pc = "done" => Len(Records) = Len(file.frames)
        /\ \A i \in 1..Len(Records) :
              /\ Len(Records[i]) >= 24
              /\ FromBytesLE(SubSeq(Records[i], 1, 16)) = file.frames[i].elapsed
              /\ FromBytesLE(SubSeq(Records[i], 17, 24)) = Len(Records[i]) - 24

\* The payload of a written record: what follows its 24 bytes of framing.
RecordPayload(rec) == SubSeq(rec, 25, Len(rec))

RECURSIVE RenamedItems(_)
\* The renaming the specification asks for: the same items in the same
\* places, each key with 'narupa' replaced by 'nanover', nested dicts
\* renamed in the same way, other values as they are.
RenamedItems(items) ==
    [i \in 1..Len(items) |->
        Item(StrReplace(items[i].key, Narupa, Nanover),
             IF items[i].value.isdict
             THEN Dict(RenamedItems(items[i].value.items))
             ELSE items[i].value)]

\* The dict that source frame i decodes to.
SourceUpdate(i) == Decoded(file.frames[i].payload).items

\* The dict that written record i decodes to.
WrittenUpdate(i) == DecodeItems(RecordPayload(Records[i]))

\* 'nanover.pos'
NanoverPos == Nanover \o <<46, 112, 111, 115>>

\* C11: a rewrite that ended on a source whose frames the codec decodes and
\* whose renamed dicts it encodes has rewritten every frame: record i
\* decodes to source frame i's dict with the same structure, every key at
\* every depth renamed and every other value unchanged; the frame
\* {'narupa.pos': 1} is rewritten to {'nanover.pos': 1}.
C11_RenamesEveryMapping ==
    (reader = "rewrite" /\ WellFormed /\ AllEncodable(file.frames)
        /\ rd_pc \in {"done", "failed"}) =>
        /\ Len(Records) = Len(file.frames)
        /\ \A i \in 1..Len(Records) :
              /\ WrittenUpdate(i).ok
              /\ WrittenUpdate(i).items = RenamedItems(SourceUpdate(i))
              /\ SourceUpdate(i) = UpdatePos =>
                    WrittenUpdate(i).items = <<Item(NanoverPos, Scalar(1))>>

\* Whether the library fails on the decoded dict of a frame: update.raw is
\* not iterable, or it gives a key that is not unpacked into (key, value),
\* or the record to encode has no changed_keys.
LibraryFails(items) ==
    \/ lib.raw = "message"
    \/ lib.raw = "keys" /\ \E k \in 1..Len(items) : Len(items[k].key) # 2
    \/ ~lib.changed_keys

\* Whether the rewrite of source frame i fails: the codec does not decode
\* its payload, the library fails on the decoded dict, or the codec does
\* not encode the renamed dict.
FrameFails(i) ==
    \/ ~Decoded(file.frames[i].payload).ok
    \/ LibraryFails(SourceUpdate(i))
    \/ ~EncodableItems(RenamedItems(SourceUpdate(i)))

\* The first source frame whose rewrite fails; 0 when none does.
FirstFailing ==
    IF \E i \in 1..Len(file.frames) : FrameFails(i)
    THEN CHOOSE i \in 1..Len(file.frames) :
            FrameFails(i) /\ \A j \in 1..(i - 1) : ~FrameFails(j)
    ELSE 0

\* The error of a frame whose rewrite fails.
FailureOf(i) ==
    IF ~Decoded(file.frames[i].payload).ok THEN {DecodeError}
    ELSE IF LibraryFails(SourceUpdate(i))
    THEN {TypeError, AttributeError} \cup {ValueError(n) : n \in 0..MaxKeyLen}
    ELSE {EncodeError}

\* The position in the buffer where source frame i ends.
FrameEnd(i) == 16 + Len(FramesBytes(SubSeq(file.frames, 1, i)))

\* The state part of C12.
C12_NoPartialRecord ==
    (reader = "rewrite" /\ ValidHeader(file) /\ FirstFailing > 0) =>
        /\ rd_pc # "done"
        /\ Len(Records) < FirstFailing
        /\ \A j \in 1..Len(Records) :
              /\ Len(Records[j]) >= 24
              /\ FromBytesLE(SubSeq(Records[j], 1, 16)) = file.frames[j].elapsed
              /\ FromBytesLE(SubSeq(Records[j], 17, 24)) = Len(Records[j]) - 24
        /\ rd_pc = "failed" =>
              /\ error \in FailureOf(FirstFailing)
              /\ cursor = FrameEnd(FirstFailing)
              /\ Len(Records) = FirstFailing - 1
              /\ written[1] = SubSeq(buffer, 1, 16)

\* What was written stays written: a step only adds writes.
C12_WritesStay == IsPrefix(written, written')

\* C12: when decoding or encoding of source frame i fails (or the library
\* fails between the two), the failure is
\* raised at once (the cursor stands at the end of frame i), no byte of a
\* record for frame i or for a later frame is written, and the header and
\* the whole records of the frames before i stay in the destination.
C12_FailureWritesNoPartialRecord ==
    [](C12_NoPartialRecord) /\ [][C12_WritesStay]_vars

\* The second frame's renamed dict could not be encoded: the header and the
\* first record are written, nothing else.
C12_Witness ==
    /\ reader = "rewrite"
    /\ ValidHeader(file)
    /\ FirstFailing = 2
    /\ rd_pc = "failed"
    /\ error = EncodeError
    /\ Len(written) = 2
    /\ printed = <<TypeOfUpdate, TypeOfUpdate>>

\* The first source frame whose payload the codec does not decode; 0 when
\* there is none.
FirstUndecodable ==
    IF AllDecodable(file.frames)
    THEN 0
    ELSE CHOOSE i \in 1..Len(file.frames) :
            /\ ~Decoded(file.frames[i].payload).ok
            /\ AllDecodable(SubSeq(file.frames, 1, i - 1))

\* C13: when the payload of the whole frame i is not decoded by the codec,
\* the iterator ends with the codec's error and never as a clean end of
\* the sequence; the frame was read once (the cursor stands at its end),
\* and the frames yielded before it are the frames 1..i-1 of the file.
C13_DecodeFailurePropagates ==
    (reader \in {"state", "traj"} /\ ValidHeader(file) /\ FirstUndecodable > 0) =>
        /\ rd_pc # "done"
        /\ Len(frames) < FirstUndecodable
        /\ IsPrefix(YieldedRaw, file.frames)
        /\ \A j \in 1..Len(frames) :
              frames[j].update = Decoded(file.frames[j].payload).items
        /\ rd_pc = "failed" =>
              /\ error = DecodeError
              /\ Len(frames) = FirstUndecodable - 1
              /\ cursor = FrameEnd(FirstUndecodable)
        /\ cursor <= FrameEnd(FirstUndecodable)

\* The state reader failed on the second frame after yielding the first.
C13_Witness ==
    /\ reader = "state"
    /\ ValidHeader(file)
    /\ FirstUndecodable = 2
    /\ rd_pc = "failed"
    /\ error = DecodeError
    /\ Len(frames) = 1

\* C14: the second run of the aggregator on the same update sequence yields
\* the pairs the first run yielded: the same timestamps and, at each yield,
\* the same snapshot; and it carries nothing of the first run: its objects
\* are new ones, and the objects the first run yielded stay as that run
\* left them.
C14_SecondRunIdentical ==
    (earlier # <<>>) =>
        /\ IsPrefix(seen, earlier[1].seen)
        /\ \A i \in 1..Len(yielded) :
              /\ yielded[i].timestamp = earlier[1].yielded[i].timestamp
              /\ \A j \in 1..Len(earlier[1].yielded) :
                    yielded[i].ref # earlier[1].yielded[j].ref
        /\ \A j \in 1..Len(earlier[1].yielded) :
              heap[earlier[1].yielded[j].ref] = earlier[1].held[j]
        /\ agg_pc = "done" =>
              /\ Len(yielded) = Len(earlier[1].yielded)
              /\ seen = earlier[1].seen
              /\ Held = earlier[1].held

\* Both runs ended, each with two different snapshots, the first not empty.
C14_Witness ==
    /\ earlier # <<>>
    /\ agg_pc = "done"
    /\ Len(seen) = 2
    /\ seen[1] # EmptyDict
    /\ seen[2] # seen[1]

\* C15: when read_header accepts the first 16 bytes of the input, as_bytes
\* of the header it returns is those 16 bytes: the magic number in bytes
\* 1..8 and the version in bytes 9..16, least significant byte first; and
\* the header the rewrite wrote is read back as the same Header.
C15_HeaderRoundTrip ==
    LET h == read_header(buffer, 0)
    IN (reader = "rewrite" /\ h.error = NoError) =>
          /\ h.cursor = 16
          /\ Len(HeaderAsBytes(h.header)) = 16
          /\ HeaderAsBytes(h.header) = SubSeq(buffer, 1, 16)
          /\ FromBytesLE(SubSeq(HeaderAsBytes(h.header), 1, 8)) = MAGIC_NUMBER
          /\ FromBytesLE(SubSeq(HeaderAsBytes(h.header), 9, 16))
                \in SupportedFormatVersions
          /\ rd_pc # "header" =>
                /\ written # <<>>
                /\ read_header(written[1], 0) = h

\* The rewrite copied the accepted header of an input that holds more than
\* the header.
C15_Witness ==
    /\ reader = "rewrite"
    /\ rd_pc = "frames"
    /\ read_header(buffer, 0).error = NoError
    /\ Len(buffer) > 16
    /\ written = <<SubSeq(buffer, 1, 16)>>

\* The state part of C16: nothing is read or yielded behind a header that
\* was not accepted, and no framing failure is raised.
C16_HeaderFirst ==
    reader \in {"state", "traj"} =>
        /\ rd_pc = "header" => (cursor = 0 /\ frames = <<>>)
        /\ (rd_pc \in {"frames", "done"} \/ frames # <<>> \/ cursor > 16) =>
              (ValidHeader(file) /\ read_header(buffer, 0).error = NoError)
        /\ (rd_pc = "failed" /\ ValidHeader(file)) => error = DecodeError
        /\ (rd_pc = "failed" /\ ~ValidHeader(file)) =>
              (error = read_header(buffer, 0).error /\ frames = <<>>)
        /\ rd_pc # "failed" => error = NoError

\* The step part of C16: a frame is yielded only by the frame loop; the
\* cursor never moves back; and from an ended sequence no step changes the
\* cursor, the frames, the error or the end itself.
C16_FinishedForGood ==
    /\ cursor' >= cursor
    /\ frames' # frames => (rd_pc = "frames" /\ cursor >= 16)
    /\ rd_pc \in {"done", "failed"} =>
          UNCHANGED <<rd_pc, cursor, frames, error, buffer, written>>

\* C16: the header is checked before any frame is read or yielded, and a
\* sequence that ended on a failed framing read stays ended: later pulls
\* yield nothing, read nothing again and raise no framing error.
C16_NoRetryHeaderFirst ==
    [](C16_HeaderFirst) /\ [][C16_FinishedForGood]_vars

\* The sequence ended on a frame cut short after one frame was yielded, and
\* the consumer pulled again.
C16_Witness ==
    /\ reader \in {"state", "traj"}
    /\ rd_pc = "done"
    /\ Len(frames) = 1
    /\ file.tail # <<>>
    /\ stops = 1

\* The state part of C17: between two pulls the cursor stands at the end of
\* the last frame yielded, whatever follows it in the input.
C17_CursorAfterPulls ==
    (reader \in {"state", "traj"} /\ ValidHeader(file) /\ rd_pc = "frames") =>
        /\ Len(frames) <= Len(file.frames)
        /\ cursor = FrameEnd(Len(frames))
        /\ YieldedRaw = SubSeq(file.frames, 1, Len(frames))
        /\ error = NoError

\* The step part of C17: a pull yields at most one frame, moves the cursor
\* by that frame's 24 bytes and payload, and changes neither the input nor
\* the frames yielded before nor anything written.
C17_OneFramePerPull ==
    reader \in {"state", "traj"} =>
        /\ buffer' = buffer
        /\ written' = written
        /\ IsPrefix(frames, frames')
        /\ Len(frames') <= Len(frames) + 1
        /\ Len(frames') = Len(frames) + 1 =>
              cursor' = cursor + 24 + Len(frames'[Len(frames')].payload)

\* C17: frames are produced one per pull: after k frames were pulled from
\* an input with a valid header, the cursor stands exactly behind the
\* header and the first k frames, nothing of a later frame was read or
\* decoded, and a pull changes nothing but the cursor and the frame it
\* yields.
C17_LazyOneFramePerPull ==
    [](C17_CursorAfterPulls) /\ [][C17_OneFramePerPull]_vars

\* One of two frames was pulled; the second, not pulled, is one the codec
\* would not decode.
C17_Witness ==
    /\ reader = "state"
    /\ ValidHeader(file)
    /\ rd_pc = "frames"
    /\ Len(frames) = 1
    /\ Len(file.frames) = 2
    /\ ~Decoded(file.frames[2].payload).ok
    /\ cursor = FrameEnd(1)
    /\ cursor < Len(buffer)

\* The place in items of the last key that is renamed to key.
LastRenamedTo(items, key) ==
    CHOOSE j \in 1..Len(items) :
        /\ StrReplace(items[j].key, Narupa, Nanover) = key
        /\ \A k \in (j + 1)..Len(items) :
              StrReplace(items[k].key, Narupa, Nanover) # key

RECURSIVE LastWriteWins(_, _)
\* out is src renamed with the last write winning: out holds each renamed
\* key of src once and no other key, and the value of a key is the value,
\* renamed in the same way, of the last item of src renamed to that key.
LastWriteWins(src, out) ==
    /\ \A a, b \in 1..Len(out) : a # b => out[a].key # out[b].key
    /\ {out[a].key : a \in 1..Len(out)} =
          {StrReplace(src[j].key, Narupa, Nanover) : j \in 1..Len(src)}
    /\ \A a \in 1..Len(out) :
          LET v == src[LastRenamedTo(src, out[a].key)].value
          IN IF v.isdict
             THEN out[a].value.isdict /\ LastWriteWins(v.items, out[a].value.items)
             ELSE out[a].value = v

RECURSIVE HasCollision(_)
\* Two keys of one dict, at some depth, are renamed to the same key.
HasCollision(items) ==
    \/ \E i, j \in 1..Len(items) :
          i # j /\ StrReplace(items[i].key, Narupa, Nanover) =
                   StrReplace(items[j].key, Narupa, Nanover)
    \/ \E i \in 1..Len(items) :
          items[i].value.isdict /\ HasCollision(items[i].value.items)

\* C18: a rewrite that ended on a source whose frames the codec decodes and
\* whose renamed dicts it encodes, one of them with two keys renamed to the
\* same key, ended without an error, and each record decodes to a dict that
\* holds the key once, with the renamed value of the colliding key that
\* comes last; {'narupa': 1, 'nanover': 2} becomes {'nanover': 2}.
C18_CollisionLastWriteWins ==
    (reader = "rewrite" /\ WellFormed /\ AllEncodable(file.frames)
        /\ rd_pc \in {"done", "failed"}
        /\ \E i \in 1..Len(file.frames) : HasCollision(SourceUpdate(i))) =>
        /\ rd_pc = "done"
        /\ error = NoError
        /\ Len(Records) = Len(file.frames)
        /\ \A i \in 1..Len(Records) :
              /\ WrittenUpdate(i).ok
              /\ LastWriteWins(SourceUpdate(i), WrittenUpdate(i).items)
              /\ SourceUpdate(i) = UpdateCollide =>
                    WrittenUpdate(i).items = <<Item(Nanover, Scalar(2))>>

\* C19: when the source header is not accepted (wrong magic number,
\* unsupported version, or cut short), replace_narupa raises the header's
\* error and nothing was passed to the writer: no header bytes, no record;
\* no frame was read.
C19_InvalidHeaderWritesNothing ==
    (reader = "rewrite" /\ ~ValidHeader(file)) =>
        /\ written = <<>>
        /\ frames = <<>>
        /\ rd_pc \in {"header", "failed"}
        /\ rd_pc = "failed" =>
              /\ error = read_header(buffer, 0).error
              /\ error = IF TruncatedHeader THEN IndexError
                         ELSE IF WrongMagic THEN InvalidMagicNumber
                         ELSE UnsuportedFormatVersion(file.version)
              /\ cursor <= 16

\* A source with an unsupported version and a whole frame behind the
\* header: the rewrite failed and wrote nothing.
C19_Witness ==
    /\ reader = "rewrite"
    /\ rd_pc = "failed"
    /\ file.hcut = 16
    /\ file.magic = MAGIC_NUMBER
    /\ error = UnsuportedFormatVersion(file.version)
    /\ Len(file.frames) = 1
    /\ written = <<>>

-----------------------------------------------------------------------------
(* The two readers run to their end on one buffer, as functions of the     *)
(* buffer: the error raised (or none), the cursor at the end, and for each *)
(* frame yielded its elapsed value and the byte range of its payload.      *)

\* What a run records of a frame it has read: f is the result of the try
\* block.
FrameRange(f) ==
    [elapsed |-> f.elapsed, payload |-> f.buffer,
     from |-> f.cursor - Len(f.buffer), to |-> f.cursor]

RECURSIVE StateLoop(_, _, _, _)
\* The frame loop of iter_state_updates with the library l, from cursor cur
\* to its end.
StateLoop(l, buf, cur, acc) ==
    LET f == StateTryReadFrame(buf, cur)
    IN IF ~f.ok THEN [error |-> NoError, cursor |-> f.cursor, frames |-> acc]
       ELSE IF ~StateUpdateDecode(l, f.buffer).ok
       THEN [error |-> DecodeError, cursor |-> f.cursor, frames |-> acc]
       ELSE StateLoop(l, buf, f.cursor, Append(acc, FrameRange(f)))

\* iter_state_updates consumed to its end.
StateRun(l, buf) ==
    LET h == state_header_check(buf, 0)
    IN IF h.error # NoError
       THEN [error |-> h.error, cursor |-> h.cursor, frames |-> <<>>]
       ELSE StateLoop(l, buf, h.cursor, <<>>)

RECURSIVE TrajLoop(_, _, _, _)
\* The frame loop of iter_traj_updates with the library l, from cursor cur
\* to its end.
TrajLoop(l, buf, cur, acc) ==
    LET f == TryReadFrame(buf, cur)
    IN IF ~f.ok THEN [error |-> NoError, cursor |-> f.cursor, frames |-> acc]
       ELSE IF ~GetFrameResponseDecode(l, f.buffer).ok
       THEN [error |-> DecodeError, cursor |-> f.cursor, frames |-> acc]
       ELSE TrajLoop(l, buf, f.cursor, Append(acc, FrameRange(f)))

\* read_header followed by iter_traj_updates consumed to its end.
TrajRun(l, buf) ==
    LET h == read_header(buf, 0)
    IN IF h.error # NoError
       THEN [error |-> h.error, cursor |-> h.cursor, frames |-> <<>>]
       ELSE TrajLoop(l, buf, h.cursor, <<>>)

\* What the reader that ran has raised, where its cursor stands, and the
\* elapsed values and payloads it yielded.
Outcome ==
    [error |-> error, cursor |-> cursor, frames |-> YieldedRaw]

\* The same of a run given as a function of the buffer.
OutcomeOf(run) ==
    [error |-> run.error, cursor |-> run.cursor,
     frames |-> [i \in 1..Len(run.frames) |->
                    [elapsed |-> run.frames[i].elapsed,
                     payload |-> run.frames[i].payload]]]

\* The libraries the two readers are compared under: the library of the
\* run, with each thing the other reader's message type may do with bytes
\* that are no encoding.
BothLibs ==
    {[lib EXCEPT !.state_update = s, !.get_frame_response = t] :
        s \in IF reader = "state" THEN {lib.state_update} ELSE GarbageOutcomes,
        t \in IF reader = "traj" THEN {lib.get_frame_response} ELSE GarbageOutcomes}

\* The run of the reader that runs, as a function of the buffer.
OwnRun ==
    IF reader = "state" THEN StateRun(lib, buffer) ELSE TrajRun(lib, buffer)

\* Whether a run ended with an error of the header.
HeaderFailed(run) == run.error \notin {NoError, DecodeError}

\* C20 as stated: on every input buffer the two readers both raise the same
\* header error with the cursor at the same place, or both yield the same
\* number of frames with the same elapsed values and the same payload byte
\* ranges and end with the cursor at the same place. Every buffer of the
\* model is the buffer of a run that has not begun.
C20_Original_ReadersAgree ==
    (reader \in {"state", "traj"} /\ rd_pc = "header") =>
        \A l \in BothLibs :
            LET state_run == StateRun(l, buffer)
                traj_run == TrajRun(l, buffer)
            IN \/ /\ HeaderFailed(state_run)
                  /\ state_run = traj_run
               \/ /\ ~HeaderFailed(state_run)
                  /\ ~HeaderFailed(traj_run)
                  /\ state_run.frames = traj_run.frames
                  /\ state_run.cursor = traj_run.cursor

\* The part of C20 that compares the two readers as functions of the
\* buffer.
C20_SameHeaderAndFraming ==
    (reader \in {"state", "traj"} /\ rd_pc = "header") =>
        \A l \in BothLibs :
            LET state_run == StateRun(l, buffer)
                traj_run == TrajRun(l, buffer)
                ns == Len(state_run.frames)
                nt == Len(traj_run.frames)
            IN /\ (HeaderFailed(state_run) \/ HeaderFailed(traj_run)) =>
                     state_run = traj_run
               /\ \/ IsPrefix(state_run.frames, traj_run.frames)
                  \/ IsPrefix(traj_run.frames, state_run.frames)
               /\ (state_run.error # DecodeError /\ traj_run.error # DecodeError) =>
                     state_run = traj_run
               /\ (state_run.error = DecodeError /\ traj_run.error # DecodeError) =>
                     /\ ns < nt
                     /\ state_run.cursor = traj_run.frames[ns + 1].to
               /\ (traj_run.error = DecodeError /\ state_run.error # DecodeError) =>
                     /\ nt < ns
                     /\ traj_run.cursor = state_run.frames[nt + 1].to

\* C20, amended: on every input buffer the two readers both raise the same
\* header error with the cursor at the same place, or read the same frames:
\* the frames one reader yields are the first frames the other yields, with
\* the same elapsed values and payload byte ranges; when neither reader's
\* message type rejects a payload they yield the same number of frames and
\* end with the cursor at the same place, and a reader whose message type
\* rejects a payload that the other's accepts stops at the end of that
\* frame. The reader that ran ended as its run says.
C20_ReadersAgree ==
    /\ C20_SameHeaderAndFraming
    /\ (reader \in {"state", "traj"} /\ rd_pc \in {"done", "failed"}) =>
          Outcome = OutcomeOf(OwnRun)

\* The trajectory reader, whose message type parses any bytes, ended on a
\* cut frame after two frames, the second with a payload that is no
\* encoding; the state reader whose message type rejects such bytes raises
\* at the end of the second frame, after it yielded the first.
C20_Witness ==
    /\ reader = "traj"
    /\ rd_pc = "done"
    /\ Len(frames) = 2
    /\ file.tail # <<>>
    /\ file.frames[2].payload = BadPayload
    /\ lib.get_frame_response = "empty"
    /\ LET state_run == StateRun([lib EXCEPT !.state_update = "raises"], buffer)
       IN /\ state_run.error = DecodeError
          /\ Len(state_run.frames) = 1
          /\ state_run.cursor = FrameEnd(2)
          /\ cursor = FrameEnd(2)

====
